---- MODULE Spec2Model ----
(***************************************************************************)
(* A model of gore (src/main.go): the REPL loop of main, the continuation  *)
(* buffer of contLiner and the Run cycle of Session (inject, quick fix,    *)
(* build and run, remember or recall).                                     *)
(*                                                                         *)
(* Strings are sequences of tokens; "\n" and " " are tokens of their own,  *)
(* so that prefix tests, trimming and joining are computed, not assumed.   *)
(* The Go parser, the type checker and the `go run` child process are      *)
(* external: the parser is modelled on a small grammar of physical lines,  *)
(* the checker and the child process are environment choices.              *)
(***************************************************************************)
EXTENDS Integers, Sequences, FiniteSets, TLC

\* ------------------------------------------------------------------ bounds
\* Most statements main() may hold when an input or a patch appends to it.
MaxBody == 2
\* Most physical lines one continuation buffer may hold.
MaxLines == 2
\* Most statements main() may hold when the checker answers as go/types.
TypedBody == 3

\* ------------------------------------------------------------- constants
maxAttempts == 10

promptDefault == "gore> "
promptContinue == "..... "

NL == "\n"
SP == " "
QUOTE == "\""
SEMI == ";"

\* ---------------------------------------------------------------- strings
\* strings.HasPrefix
HasPrefix(s, p) ==
    /\ Len(s) >= Len(p)
    /\ SubSeq(s, 1, Len(p)) = p

RECURSIVE TrimLeft(_, _)
TrimLeft(s, cut) ==
    IF s # <<>> /\ Head(s) \in cut THEN TrimLeft(Tail(s), cut) ELSE s

RECURSIVE TrimRight(_, _)
TrimRight(s, cut) ==
    IF s # <<>> /\ s[Len(s)] \in cut
    THEN TrimRight(SubSeq(s, 1, Len(s) - 1), cut)
    ELSE s

\* strings.Trim(s, cutset)
Trim(s, cut) == TrimRight(TrimLeft(s, cut), cut)

\* strings.TrimSpace
TrimSpace(s) == Trim(s, {SP, NL})

\* strconv.Quote, as astutil.AddImport and the checker's %q apply it
Quote(s) == <<QUOTE>> \o s \o <<QUOTE>>

\* --------------------------------------------------------- physical lines
LineDecl == <<"x", ":=", "5">>
LineExpr == <<"x">>
LineOpen == <<"{">>
LineClose == <<"}">>
LinePrint == <<":print", SP>>
LineImport == <<":import", SP, QUOTE, "os", QUOTE>>
LineEmpty == <<>>

\* What the user may type at the default prompt.
Lines ==
    {LineDecl, LineExpr, LineOpen, LineClose, LinePrint, LineImport,
     LineEmpty}

\* What the user may type at the continuation prompt.
ContLines == {LineDecl, LineClose, LineEmpty}

\* The inputs of one line that need no continuation.
TypedLines == {LineDecl, LineExpr, LinePrint, LineImport}

\* Number of physical lines a non-empty buffer holds.
RECURSIVE CountNL(_)
CountNL(s) ==
    IF s = <<>> THEN 0
    ELSE (IF Head(s) = NL THEN 1 ELSE 0) + CountNL(Tail(s))

\* ----------------------------------------------------------------- errors
NilErr == [kind |-> "nil", status |-> 0]
ErrContinue == [kind |-> "Error", status |-> 0]
ErrorList == [kind |-> "scanner.ErrorList", status |-> 0]
ExitError(st) == [kind |-> "exec.ExitError", status |-> st]
StartError == [kind |-> "exec.Error", status |-> 0]
CreateError == [kind |-> "os.PathError", status |-> 0]
\* What types.Check returns when quickFixFile hands it on (return err)
TypesError == [kind |-> "types.Error", status |-> 0]

\* What liner.State.Prompt returns beside the line
NoReadErr == "nil"
EOF == "io.EOF"
ReadFailure == "liner error"

\* ----------------------------------------------------------------- parser
\* The scanner: blanks dropped, a newline is a statement separator.
RECURSIVE Scan(_)
Scan(s) ==
    IF s = <<>> THEN <<>>
    ELSE IF Head(s) = SP THEN Scan(Tail(s))
    ELSE IF Head(s) = NL THEN <<SEMI>> \o Scan(Tail(s))
    ELSE <<Head(s)>> \o Scan(Tail(s))

\* The token sequence cut at its separators.
RECURSIVE Split(_, _)
Split(s, cur) ==
    IF s = <<>> THEN <<cur>>
    ELSE IF Head(s) = SEMI THEN <<cur>> \o Split(Tail(s), <<>>)
    ELSE Split(Tail(s), Append(cur, Head(s)))

SimpleStmts == {<<"x", ":=", "5">>, <<"x">>}
Exprs == {<<"x">>}

ParsedStmt(src) == [node |-> "stmt", src |-> src]
CallPBare(expr) == [node |-> "stmt", src |-> expr]

CallP(expr) == [node |-> "p()", src |-> expr]
Discard(ident) == [node |-> "_ =", src |-> <<ident>>]

\* A statement list: simple statements and nested blocks, separated.
RECURSIVE StmtList(_, _, _, _)
StmtList(segs, depth, cur, out) ==
    IF segs = <<>>
    THEN IF depth = 0 THEN [err |-> NilErr, list |-> out]
         ELSE [err |-> ErrorList, list |-> <<>>]
    ELSE LET s == Head(segs)
             rest == Tail(segs)
         IN  IF s = <<>> THEN StmtList(rest, depth, cur, out)
             ELSE IF s = <<"{">>
             THEN StmtList(rest, depth + 1, cur \o s, out)
             ELSE IF s = <<"}">>
             THEN IF depth = 0 THEN [err |-> ErrorList, list |-> <<>>]
                  ELSE IF depth = 1
                  THEN StmtList(rest, 0, <<>>,
                                Append(out, ParsedStmt(cur \o s)))
                  ELSE StmtList(rest, depth - 1, cur \o s, out)
             ELSE IF s \in SimpleStmts
             THEN IF depth = 0
                  THEN StmtList(rest, 0, <<>>, Append(out, ParsedStmt(s)))
                  ELSE StmtList(rest, depth, cur \o s \o <<SEMI>>, out)
             ELSE [err |-> ErrorList, list |-> <<>>]

\* parser.ParseExpr(in)
ParseExpr(in) ==
    LET toks == Scan(TrimSpace(in))
    IN  IF toks \in Exprs THEN [err |-> NilErr, expr |-> toks]
        ELSE [err |-> ErrorList, expr |-> <<>>]

\* parser.ParseFile of "package P; func F() { in }": the body of F
ParseFile(in) == StmtList(Split(Scan(in), <<>>), 0, <<>>, <<>>)

\* What is left open when the statement parse fails: the nesting depth at
\* the end of the input, or -1 when a segment is no statement or a block
\* is closed that was never opened (no further line can repair that).
RECURSIVE OpenDepth(_, _)
OpenDepth(segs, depth) ==
    IF segs = <<>> THEN depth
    ELSE LET s == Head(segs)
         IN  IF s = <<"{">> THEN OpenDepth(Tail(segs), depth + 1)
             ELSE IF s = <<"}">>
             THEN IF depth = 0 THEN -1 ELSE OpenDepth(Tail(segs), depth - 1)
             ELSE IF s = <<>> \/ s \in SimpleStmts
             THEN OpenDepth(Tail(segs), depth)
             ELSE -1

\* -------------------------------------------------------------- contLiner
promptString(buf) == IF buf # <<>> THEN promptContinue ELSE promptDefault

PromptBufferLast(buf, line) == line

\* contLiner.Prompt on a line read without error
PromptBuffer(buf, line) ==
    IF buf # <<>> THEN buf \o <<NL>> \o line ELSE line

AcceptedKept(buf) == buf

\* contLiner.Accepted
Accepted(buf) == <<>>

\* ---------------------------------------------------------------- Session
NoName == "nil"
Blank == "_"

ImportSpec(path) == [path |-> Quote(path), name |-> NoName]

\* Session.File.Imports as NewSession leaves it: import "fmt"
InitialImports == <<ImportSpec(<<"fmt">>)>>

appendStatements(body, stmts) == body \o stmts

injectExprEager(body, in) ==
    LET r == ParseExpr(in)
    IN  [err |-> r.err, body |-> appendStatements(body, <<CallP(r.expr)>>)]

injectExpr(body, in) ==
    LET r == ParseExpr(in)
    IN  IF r.err # NilErr THEN [err |-> r.err, body |-> body]
        ELSE [err |-> NilErr,
              body |-> appendStatements(body, <<CallP(r.expr)>>)]

injectStmt(body, in) ==
    LET r == ParseFile(in)
    IN  IF r.err # NilErr THEN [err |-> r.err, body |-> body]
        ELSE [err |-> NilErr, body |-> appendStatements(body, r.list)]

ImportPrefix == <<":import", SP>>

\* handleImport's test, and the path it hands to astutil.AddImport
IsImport(in) == HasPrefix(in, ImportPrefix)
ImportPath(in) == Trim(SubSeq(in, Len(ImportPrefix) + 1, Len(in)), {QUOTE})

\* astutil.AddImport: adds the import unless the file already has it
AddImport(imps, path) ==
    IF \E k \in DOMAIN imps : imps[k].path = Quote(path) THEN imps
    ELSE Append(imps, ImportSpec(path))

\* handlePrint's test
IsPrint(in) == TrimSpace(in) = <<":print">>

\* printer.Fprint: the source text of the file, line by line
ImportText(imp) ==
    IF imp.name = NoName THEN <<"import">> \o imp.path
    ELSE <<"import", imp.name>> \o imp.path

StmtText(st) ==
    IF st.node = "p()" THEN <<"p", "(">> \o st.src \o <<")">>
    ELSE IF st.node = "_ =" THEN <<"_", "=">> \o st.src
    ELSE st.src

Fprint(imps, body) ==
    [k \in 1..Len(imps) |-> ImportText(imps[k])]
    \o <<<<"func", "main", "{">>>>
    \o [k \in 1..Len(body) |-> StmtText(body[k])]
    \o <<<<"}">>>>

NoText == <<>>

clearQuickFixNone(imps) == imps

clearQuickFix(imps) ==
    [k \in 1..Len(imps) |-> [imps[k] EXCEPT !.name = NoName]]

RememberCodeStale(body, stored) == stored

\* RememberCode: the new storedBodyLength
RememberCode(body, stored) == Len(body)

RecallCodeNone(body, stored) == body

RecallCodeAll(body, stored) == <<>>

RecallCodePop(body, stored) ==
    IF body = <<>> THEN body ELSE SubSeq(body, 1, Len(body) - 1)

\* RecallCode: the new mainBody.List
RecallCode(body, stored) == SubSeq(body, 1, stored)

RollsBackAnyExit(e) == e.kind = "exec.ExitError"

\* Run recalls the code when the child exited with status 2
RollsBack(e) == e.kind = "exec.ExitError" /\ e.status = 2

\* ------------------------------------------------------------ diagnostics
DeclaredNotUsed == "declared but not used"
ImportedNotUsed == "imported but not used"

Idents == {"x"}

SoftDeclared(ident) == [soft |-> TRUE, msg |-> <<ident, DeclaredNotUsed>>]
SoftImported(path) == [soft |-> TRUE, msg |-> Append(path, ImportedNotUsed)]
SoftOther == [soft |-> TRUE, msg |-> <<"missing return">>]
Hard == [soft |-> FALSE, msg |-> <<"undeclared name">>]
NoDiag == [soft |-> FALSE, msg |-> <<>>]

MatchDeclaredNever(msg) == <<>>

\* rxDeclaredNotUsed.FindStringSubmatch: the identifier, or <<>>
MatchDeclared(msg) ==
    IF Len(msg) >= 2 /\ msg[1] \in Idents /\ msg[2] = DeclaredNotUsed
    THEN <<msg[1]>> ELSE <<>>

\* rxImportedNotUsed.FindStringSubmatch: the quoted path, or <<>>
MatchImported(msg) ==
    IF /\ Len(msg) >= 4
       /\ msg[1] = QUOTE
       /\ msg[Len(msg) - 1] = QUOTE
       /\ msg[Len(msg)] = ImportedNotUsed
    THEN SubSeq(msg, 1, Len(msg) - 1) ELSE <<>>

BlankEvery(imps, path) ==
    [k \in 1..Len(imps) |-> [imps[k] EXCEPT !.name = Blank]]

\* The first import spec with that path gets the blank name.
RECURSIVE BlankFirst(_, _)
BlankFirst(imps, path) ==
    IF imps = <<>> THEN <<>>
    ELSE IF Head(imps).path = path
    THEN <<[Head(imps) EXCEPT !.name = Blank]>> \o Tail(imps)
    ELSE <<Head(imps)>> \o BlankFirst(Tail(imps), path)

\* Identifiers some statement of the body declares with :=
Declares(st, ident) ==
    \E k \in 1..(Len(st.src) - 1) : st.src[k] = ident /\ st.src[k + 1] = ":="

\* What types.Check may report first on the file: nothing, an error that
\* is not soft, a soft error of another shape, a variable some statement
\* declares as unused, or an import other than fmt (which the helper p
\* uses) as unused.
Diagnostics(imps, body) ==
    {NoDiag, Hard, SoftOther}
    \cup {SoftDeclared(v) : v \in
            {w \in Idents : \E k \in 1..Len(body) : Declares(body[k], w)}}
    \cup {SoftImported(imps[k].path) : k \in 2..Len(imps)}

NoNewVars ==
    [soft |-> TRUE, msg |-> <<"no new variables on left side of :=">>]

\* The first error go/types finds in the statements of main(), one after
\* the other: a := of a variable main() has already, a use of a variable
\* it has not; at the end of main(), a variable declared and never used.
\* Defined on the statements TypedLines and the quick fix produce.
RECURSIVE CheckStmts(_, _, _)
CheckStmts(body, declared, used) ==
    IF body = <<>>
    THEN IF declared \ used # {}
         THEN SoftDeclared(CHOOSE v \in declared \ used : TRUE)
         ELSE NoDiag
    ELSE LET st == Head(body)
             v == st.src[1]
         IN  CASE st.node = "stmt" /\ Declares(st, v) ->
                    IF v \in declared THEN NoNewVars
                    ELSE CheckStmts(Tail(body), declared \cup {v}, used)
               [] st.node \in {"p()", "_ ="} ->
                    IF v \notin declared THEN Hard
                    ELSE CheckStmts(Tail(body), declared, used \cup {v})

\* types.Check as go/types answers: the first error of main(), else the
\* first import that nothing uses and that has not the blank name (p
\* uses fmt), else nothing.
TypesCheck(imps, body) ==
    LET d == CheckStmts(body, {}, {})
        unused == {k \in 2..Len(imps) : imps[k].name # Blank}
    IN  IF d # NoDiag THEN d
        ELSE IF unused # {}
        THEN SoftImported(imps[CHOOSE k \in unused :
                                   \A j \in unused : k <= j].path)
        ELSE NoDiag

LoopCondOffByOne(n) == n <= maxAttempts

\* quickFixFile: for i := 0; i < maxAttempts; i++
LoopCond(n) == n < maxAttempts

\* ------------------------------------------------------------------ state
VARIABLES
    buffer,            \* contLiner.buffer
    mainBody,          \* Session.mainBody.List
    imports,           \* Session.File.Imports
    storedBodyLength,  \* Session.storedBodyLength
    pc,                \* where main is: at the prompt, in Run, ...
    i,                 \* quickFixFile's loop counter
    err,               \* what Run returns to main
    checks,            \* types.Check calls of the quickFixFile under way
    fixed,             \* quickFixFile was called in the cycle
    fixErr,            \* what quickFixFile returned (Run drops it)
    readErr,           \* the error liner's Prompt returned last
    goRuns,            \* goRun calls of the cycle
    committed,         \* mainBody.List when RememberCode last ran
    pre,               \* the session when Run was last entered
    built,             \* mainBody.List as BuildRunFile wrote it out
    printed,           \* the text handlePrint wrote in this cycle
    prevPrinted        \* the text handlePrint wrote in the cycle before

vars ==
    <<buffer, mainBody, imports, storedBodyLength, pc, i, err, checks,
      fixed, fixErr, readErr, goRuns, committed, pre, built, printed,
      prevPrinted>>

\* The session as :print shows it and RememberCode/RecallCode keep it.
Program == [body |-> mainBody, imports |-> imports,
            stored |-> storedBodyLength]

\* NewSession and newContLiner
Init ==
    /\ buffer = <<>>
    /\ mainBody = <<>>
    /\ imports = InitialImports
    /\ storedBodyLength = 0
    /\ pc = "Prompt"
    /\ i = 0
    /\ err = NilErr
    /\ checks = 0
    /\ fixed = FALSE
    /\ fixErr = NilErr
    /\ readErr = NoReadErr
    /\ goRuns = 0
    /\ committed = <<>>
    /\ pre = [body |-> <<>>, imports |-> InitialImports, stored |-> 0]
    /\ built = <<>>
    /\ printed = NoText
    /\ prevPrinted = NoText

session == <<mainBody, imports, storedBodyLength, committed>>
cycle ==
    <<i, err, checks, fixed, fixErr, goRuns, pre, built, printed,
      prevPrinted>>

\* main: rl.Prompt() returns a line, one of `first` at the default prompt
\* and one of `more` at the continuation prompt; an empty input is skipped
PromptFrom(first, more) ==
    /\ pc = "Prompt"
    /\ \E line \in first \cup more :
          /\ (buffer = <<>> /\ line \in first)
             \/ (/\ buffer # <<>>
                 /\ line \in more
                 /\ CountNL(buffer) + 1 < MaxLines)
          /\ buffer' = PromptBuffer(buffer, line)
    /\ readErr' = NoReadErr
    /\ pc' = IF buffer' = <<>> THEN "Prompt" ELSE "Run"
    /\ UNCHANGED <<session, cycle>>

PromptLine == PromptFrom(Lines, ContLines)

\* main: rl.Prompt() at end of input: a pending continuation is cancelled,
\* otherwise the loop ends
PromptEOF ==
    /\ pc = "Prompt"
    /\ IF buffer # <<>>
       THEN buffer' = Accepted(buffer) /\ pc' = "Prompt"
       ELSE buffer' = buffer /\ pc' = "exit"
    /\ readErr' = EOF
    /\ UNCHANGED <<session, cycle>>

\* main: rl.Prompt() fails otherwise: fatal
PromptFatal ==
    /\ pc = "Prompt"
    /\ pc' = "fatal"
    /\ readErr' = ReadFailure
    /\ UNCHANGED <<buffer, session, cycle>>

\* Run up to quickFixFile: clearQuickFix, the commands, the injection;
\* main() holds at most n statements afterwards
RunInjectUpTo(n) ==
    /\ pc = "Run"
    /\ LET in == buffer
           cleared == clearQuickFix(imports)
           e1 == injectExpr(mainBody, in)
           e2 == injectStmt(e1.body, in)
       IN  /\ pre' = Program
           /\ i' = 0
           /\ IF IsImport(in)
              THEN /\ imports' = AddImport(cleared, ImportPath(in))
                   /\ mainBody' = mainBody
                   /\ printed' = NoText
                   /\ pc' = "quickFixFile"
                   /\ err' = NilErr
              ELSE IF IsPrint(in)
              THEN /\ imports' = cleared
                   /\ mainBody' = mainBody
                   /\ printed' = Fprint(cleared, mainBody)
                   /\ pc' = "quickFixFile"
                   /\ err' = NilErr
              ELSE /\ imports' = cleared
                   /\ printed' = NoText
                   /\ IF e1.err = NilErr
                      THEN /\ mainBody' = e1.body
                           /\ pc' = "quickFixFile"
                           /\ err' = NilErr
                      ELSE /\ mainBody' = e2.body
                           /\ IF e2.err # NilErr
                                 /\ e2.err.kind = "scanner.ErrorList"
                              THEN pc' = "Returned" /\ err' = ErrContinue
                              ELSE pc' = "quickFixFile" /\ err' = NilErr
           /\ fixed' = (pc' = "quickFixFile")
           /\ Len(mainBody') <= n
    /\ UNCHANGED <<buffer, storedBodyLength, committed, checks, fixErr,
                   readErr, goRuns, built, prevPrinted>>

RunInject == RunInjectUpTo(MaxBody)

LoopExitAbort == pc' = "Returned" /\ i' = 0

\* quickFixFile returns (break, return err, or the loop condition fails):
\* Run goes on to BuildRunFile whatever it returned.
LoopExit == pc' = "BuildRunFile" /\ i' = 0

\* i++ and the loop condition
LoopNext ==
    IF LoopCond(i + 1) THEN pc' = "quickFixFile" /\ i' = i + 1
    ELSE LoopExit

ReturnErrGoesOn ==
    /\ LoopNext
    /\ fixErr' = TypesError
    /\ UNCHANGED <<mainBody, imports>>

\* quickFixFile: the error is no soft types.Error: return err
ReturnErr ==
    /\ LoopExit
    /\ fixErr' = TypesError
    /\ UNCHANGED <<mainBody, imports>>

\* quickFixFile: break (no error, or a soft error of no known shape)
Break ==
    /\ LoopExit
    /\ fixErr' = NilErr
    /\ UNCHANGED <<mainBody, imports>>

\* One pass of quickFixFile's loop on the checker's answer d: the patch or
\* the exit; main() holds at most n statements afterwards
QuickFixPass(d, n) ==
    /\ pc = "quickFixFile"
    /\ checks' = checks + 1
    /\ IF d = NoDiag THEN Break
       ELSE IF ~d.soft THEN ReturnErr
       ELSE IF MatchDeclared(d.msg) # <<>>
       THEN /\ Len(mainBody) < n
            /\ mainBody' = appendStatements(
                   mainBody, <<Discard(MatchDeclared(d.msg)[1])>>)
            /\ LoopNext
            /\ fixErr' = NilErr
            /\ UNCHANGED imports
       ELSE IF MatchImported(d.msg) # <<>>
       THEN /\ imports' = BlankFirst(imports, MatchImported(d.msg))
            /\ LoopNext
            /\ fixErr' = NilErr
            /\ UNCHANGED mainBody
       ELSE Break
    /\ UNCHANGED <<buffer, storedBodyLength, committed, err, fixed, readErr,
                   goRuns, pre, built, printed, prevPrinted>>

\* One pass of quickFixFile's loop: the check, then the patch or the exit
QuickFix == \E d \in Diagnostics(imports, mainBody) : QuickFixPass(d, MaxBody)

\* What BuildRunFile may return: nil, the child's exit status, the child
\* not started, the session file not created.
Outcomes == {NilErr, ExitError(1), ExitError(2), StartError, CreateError}

\* Run from BuildRunFile on: the build, then RememberCode or RecallCode.
\* quickFixFile is over and so is its count of checks.
BuildRun ==
    /\ pc = "BuildRunFile"
    /\ built' = mainBody
    /\ \E e \in Outcomes :
          /\ err' = e
          /\ goRuns' = IF e = CreateError THEN goRuns ELSE goRuns + 1
          /\ IF e # NilErr
             THEN /\ mainBody' = IF RollsBack(e)
                                 THEN RecallCode(mainBody, storedBodyLength)
                                 ELSE mainBody
                  /\ UNCHANGED <<storedBodyLength, committed>>
             ELSE /\ storedBodyLength' =
                         RememberCode(mainBody, storedBodyLength)
                  /\ committed' = mainBody
                  /\ UNCHANGED mainBody
    /\ pc' = "Returned"
    /\ checks' = 0
    /\ UNCHANGED <<buffer, imports, i, fixed, fixErr, readErr, pre, printed,
                   prevPrinted>>

\* main after Run: ErrContinue keeps the buffer, anything else is reported
\* (when not nil) and accepted. The cycle is over: its locals and its
\* counters start afresh.
AfterRun ==
    /\ pc = "Returned"
    /\ buffer' = IF err = ErrContinue THEN buffer ELSE Accepted(buffer)
    /\ pc' = "Prompt"
    /\ i' = 0
    /\ err' = NilErr
    /\ fixed' = FALSE
    /\ fixErr' = NilErr
    /\ goRuns' = 0
    /\ pre' = Program
    /\ built' = <<>>
    /\ printed' = NoText
    /\ prevPrinted' = printed
    /\ UNCHANGED <<session, checks, readErr>>

Next ==
    \/ PromptLine
    \/ PromptEOF
    \/ PromptFatal
    \/ RunInject
    \/ QuickFix
    \/ BuildRun
    \/ AfterRun

Spec == Init /\ [][Next]_vars

\* quickFixFile is a loop of straight-line code around a call of the
\* checker that returns: once entered, each pass does happen.
FairSpec == Spec /\ WF_vars(QuickFix)

\* The same session when the checker answers as go/types does and every
\* input is one line that needs no continuation.
TypedPrompt == PromptFrom(TypedLines, {})

TypedRunInject == RunInjectUpTo(TypedBody)

TypedQuickFix == QuickFixPass(TypesCheck(imports, mainBody), TypedBody)

TypedNext ==
    \/ TypedPrompt
    \/ PromptEOF
    \/ PromptFatal
    \/ TypedRunInject
    \/ TypedQuickFix
    \/ BuildRun
    \/ AfterRun

TypedSpec == Init /\ [][TypedNext]_vars

\* ----------------------------------------------------------------- claims
\* The cycle's Run has returned and main has not yet looked at the result.
Returned == pc = "Returned"

\* Run got as far as BuildRunFile and it returned e.
BuildReturned(e) == Returned /\ err = e

HasBlank(imps) == \E k \in 1..Len(imps) : imps[k].name = Blank

\* The appended statements of the cycle, as the build saw them.
Appended == SubSeq(built, Len(pre.body) + 1, Len(built))

\* C1: after a cycle whose build and run succeeded, storedBodyLength is
\* the length of mainBody.List, whatever the input was.
C1_CommitOnSuccess ==
    BuildReturned(NilErr) => storedBodyLength = Len(mainBody)

C1_Witness ==
    /\ BuildReturned(NilErr)
    /\ storedBodyLength > pre.stored
    /\ pre.stored > 0

\* C2: after a cycle whose build failed with exit status 2, mainBody.List
\* is what it was at the last commit (empty when there was none), the
\* statements the cycle appended are gone, storedBodyLength is unchanged.
C2_RollbackExact ==
    BuildReturned(ExitError(2)) =>
        /\ mainBody = committed
        /\ storedBodyLength = pre.stored
        /\ Len(mainBody) = storedBodyLength

C2_Witness ==
    /\ BuildReturned(ExitError(2))
    /\ committed # <<>>
    /\ \E k \in 1..Len(Appended) : Appended[k].node = "_ ="

\* C3: a cycle whose input is :import or :print calls goRun not once.
C3_NoBuildOnCommand ==
    (Returned /\ (IsImport(buffer) \/ IsPrint(buffer))) => goRuns = 0

\* C4: a :print cycle leaves the session as it found it, and two :print
\* cycles in a row write the same text.
C4_PrintIdempotent ==
    (Returned /\ IsPrint(buffer)) =>
        /\ Program = pre
        /\ (prevPrinted # NoText => printed = prevPrinted)

\* The input is neither a command nor an expression nor a statement list,
\* and no further line can make it one.
Genuine(in) ==
    /\ ~IsImport(in)
    /\ ~IsPrint(in)
    /\ ParseExpr(in).err # NilErr
    /\ ParseFile(in).err # NilErr
    /\ OpenDepth(Split(Scan(in), <<>>), 0) = -1

\* C5: on an input with a syntax error no further line can repair, Run
\* returns an error other than ErrContinue and leaves mainBody.List alone.
C5_SyntaxErrorSurfaced ==
    (Returned /\ Genuine(buffer)) =>
        /\ err # ErrContinue
        /\ err # NilErr
        /\ mainBody = pre.body

\* C6: a cycle that Run ends with ErrContinue has appended nothing, left
\* storedBodyLength alone, and called neither types.Check nor goRun.
C6_ContinueNoEffect ==
    BuildReturned(ErrContinue) =>
        /\ mainBody = pre.body
        /\ storedBodyLength = pre.stored
        /\ ~fixed
        /\ goRuns = 0
        /\ built = <<>>

C6_Witness ==
    /\ BuildReturned(ErrContinue)
    /\ mainBody # <<>>
    /\ CountNL(buffer) > 0

\* A build failure that is not exit status 2.
OtherFailure(e) == e \notin {NilErr, ErrContinue, ExitError(2)}

\* C7: after a cycle whose build failed otherwise than with exit status 2,
\* mainBody.List still holds what the cycle appended after what it held
\* before, and storedBodyLength is unchanged.
C7_NoRollbackOtherwise ==
    (Returned /\ OtherFailure(err)) =>
        /\ mainBody = built
        /\ mainBody = pre.body \o Appended
        /\ storedBodyLength = pre.stored

C7_Witness ==
    /\ Returned
    /\ err = ExitError(1)
    /\ Len(Appended) = 2
    /\ Appended[2].node = "_ ="
    /\ Len(mainBody) > storedBodyLength

\* C8: the first storedBodyLength statements of mainBody.List are, in
\* every state, the mainBody.List of the last cycle that succeeded.
C8_CommittedPrefix ==
    /\ storedBodyLength <= Len(mainBody)
    /\ SubSeq(mainBody, 1, storedBodyLength) = committed

C8_Witness ==
    /\ Returned
    /\ err = StartError
    /\ committed # <<>>
    /\ Len(mainBody) > storedBodyLength

\* C9: types.Check is called at most maxAttempts times in a cycle, and
\* quickFixFile is left for BuildRunFile whatever the checker reports.
C9_QuickFixBounded ==
    /\ [](checks <= maxAttempts)
    /\ [](pc = "quickFixFile" => <>(pc = "BuildRunFile"))

C9_Witness ==
    /\ pc = "BuildRunFile"
    /\ checks = maxAttempts
    /\ HasBlank(imports)

\* C10: when types.Check is about to be called for the first time in a
\* cycle, no import spec has the blank name.
C10_AliasReset ==
    (pc = "quickFixFile" /\ checks = 0) => ~HasBlank(imports)

C10_Witness ==
    /\ pc = "quickFixFile"
    /\ checks = 0
    /\ HasBlank(pre.imports)

\* C11: a cycle leaves mainBody.List at least as long as it found it unless
\* its build failed with exit status 2; a cycle on :import or :print never
\* shortens it.
C11_NoShrinkButRollback ==
    (Returned /\ (err # ExitError(2) \/ IsImport(buffer) \/ IsPrint(buffer)))
        => Len(mainBody) >= Len(pre.body)

\* The injection of the cycle is over and quickFixFile has not yet begun.
Injected == pc = "quickFixFile" /\ checks = 0

\* C12: an input that parses as an expression appends one statement to
\* mainBody.List, the call of p on that expression; injectStmt is not
\* applied to it.
C12_ExpressionEcho ==
    (Injected /\ ParseExpr(buffer).err = NilErr) =>
        /\ Len(mainBody) = Len(pre.body) + 1
        /\ SubSeq(mainBody, 1, Len(pre.body)) = pre.body
        /\ mainBody[Len(mainBody)] =
               [node |-> "p()", src |-> ParseExpr(buffer).expr]
        /\ mainBody[Len(mainBody)] \notin
               {ParseFile(buffer).list[k] : k \in 1..Len(ParseFile(buffer).list)}

C12_Witness ==
    /\ Injected
    /\ buffer = LineExpr
    /\ ParseFile(buffer).err = NilErr
    /\ pre.body # <<>>

\* The session as NewSession leaves it, and as it is once `x := 5` got its
\* `_ = x` and was committed.
Fresh == [body |-> <<>>, imports |-> InitialImports, stored |-> 0]
DeclCommitted ==
    [body |-> <<[node |-> "stmt", src |-> <<"x", ":=", "5">>],
                [node |-> "_ =", src |-> <<"x">>]>>,
     imports |-> InitialImports,
     stored |-> 2]

\* C13: from a fresh session `x := 5` gets exactly one `_ = x` from the
\* quick fix, whose second check is clean, and storedBodyLength becomes 2
\* when the build succeeds; then `x` appends one p(x), the first check is
\* clean, and storedBodyLength becomes 3 when the build succeeds.
C13_Scenario ==
    /\ (pc = "BuildRunFile" /\ pre = Fresh /\ buffer = LineDecl) =>
           /\ mainBody = DeclCommitted.body
           /\ checks = 2
           /\ fixErr = NilErr
    /\ (BuildReturned(NilErr) /\ pre = Fresh /\ buffer = LineDecl) =>
           Program = DeclCommitted
    /\ (pc = "BuildRunFile" /\ pre = DeclCommitted /\ buffer = LineExpr) =>
           /\ mainBody =
                  DeclCommitted.body \o <<[node |-> "p()", src |-> <<"x">>]>>
           /\ checks = 1
           /\ fixErr = NilErr
    /\ (BuildReturned(NilErr) /\ pre = DeclCommitted /\ buffer = LineExpr) =>
           /\ storedBodyLength = 3
           /\ Len(mainBody) = 3

C13_Witness ==
    /\ BuildReturned(NilErr)
    /\ pre = DeclCommitted
    /\ buffer = LineExpr
    /\ storedBodyLength = 3

\* C14 as stated: a cycle that Run does not end with ErrContinue has called
\* goRun exactly once.
C14_OneBuildPerCycle ==
    (Returned /\ err # ErrContinue) => goRuns = 1

\* C14: a cycle that Run does not end with ErrContinue has called goRun
\* exactly once, whatever quickFixFile returned, unless BuildRunFile could
\* not write the session file, and then not at all.
C14_OneBuildUnlessNoFile ==
    (Returned /\ err # ErrContinue) =>
        goRuns = IF err = CreateError THEN 0 ELSE 1

C14_Witness ==
    /\ Returned
    /\ fixErr = TypesError
    /\ goRuns = 1
    /\ err = ExitError(2)

\* The statements Run's injection appends on the input.
InjectedCount(in) ==
    IF IsImport(in) \/ IsPrint(in) THEN 0
    ELSE IF ParseExpr(in).err = NilErr THEN 1
    ELSE Len(ParseFile(in).list)

\* The statements quickFixFile has appended so far in the cycle.
Patched == Len(mainBody) - (Len(pre.body) + InjectedCount(buffer))

\* C15: one pass of quickFixFile's loop calls types.Check once and applies
\* at most one patch, either one `_ = x` appended with the imports left
\* alone or the blank name given to one import, the first with its path,
\* with mainBody.List left alone; so quickFixFile appends no more
\* statements than it made checks, at most maxAttempts.
C15_OnePatchPerCheck ==
    /\ [][pc = "quickFixFile" =>
            /\ checks' = checks + 1
            /\ \/ mainBody' = mainBody /\ imports' = imports
               \/ /\ imports' = imports
                  /\ Len(mainBody') = Len(mainBody) + 1
                  /\ SubSeq(mainBody', 1, Len(mainBody)) = mainBody
                  /\ mainBody'[Len(mainBody')].node = "_ ="
               \/ /\ mainBody' = mainBody
                  /\ \E k \in 1..Len(imports) :
                        /\ imports' = [imports EXCEPT ![k].name = Blank]
                        /\ \A j \in 1..(k - 1) :
                              imports[j].path # imports[k].path]_vars
    /\ [](pc \in {"quickFixFile", "BuildRunFile"} =>
            Patched <= checks /\ checks <= maxAttempts)

C15_Witness ==
    /\ pc = "quickFixFile"
    /\ checks = 2
    /\ Patched = 1
    /\ HasBlank(imports)
    /\ mainBody[Len(mainBody)].node = "_ ="

\* C16: the pass of quickFixFile's loop in which the checker's error is no
\* soft types.Error leaves mainBody.List and the imports as they were and
\* is the last of the cycle: no types.Check follows before Run returns.
C16_HardStops ==
    /\ [][(pc = "quickFixFile" /\ fixErr' # NilErr) =>
            /\ mainBody' = mainBody
            /\ imports' = imports
            /\ pc' = "BuildRunFile"]_vars
    /\ [][fixErr # NilErr => checks' # checks + 1]_vars

C16_Witness ==
    /\ pc = "BuildRunFile"
    /\ fixErr = TypesError
    /\ checks = 2
    /\ Patched = 1

\* Run answers ErrContinue on the input: no command, no expression, and
\* the statement parse fails.
AsksForMore(in) ==
    /\ ~IsImport(in)
    /\ ~IsPrint(in)
    /\ ParseExpr(in).err # NilErr
    /\ ParseFile(in).err = ErrorList

\* C17: main keeps the buffer after a cycle that returned ErrContinue and
\* empties it after every other cycle; a line read then is joined to a
\* kept buffer with a newline; the continuation prompt is shown exactly
\* for a non-empty buffer; no input is kept but one Run answered with
\* ErrContinue.
C17_ContinuationBuffer ==
    /\ [][/\ pc = "Returned" =>
               buffer' = IF err = ErrContinue THEN buffer ELSE <<>>
          /\ (pc = "Prompt" /\ readErr' = NoReadErr) =>
               \E line \in Lines :
                  buffer' = IF buffer = <<>> THEN line
                            ELSE buffer \o <<NL>> \o line]_vars
    /\ [](promptString(buffer) = promptContinue <=> buffer # <<>>)
    /\ []((pc = "Prompt" /\ buffer # <<>>) => AsksForMore(buffer))

C17_Witness ==
    /\ pc = "Run"
    /\ CountNL(buffer) = 1
    /\ HasPrefix(buffer, LineOpen \o <<NL>>)
    /\ ParseFile(buffer).err = NilErr

\* C18: storedBodyLength is 0 at first, lies between 0 and the length of
\* mainBody.List in every state, and never decreases.
C18_CheckpointMonotone ==
    /\ storedBodyLength = 0
    /\ [](0 <= storedBodyLength /\ storedBodyLength <= Len(mainBody))
    /\ [][storedBodyLength' >= storedBodyLength]_vars

C18_Witness ==
    /\ BuildReturned(ExitError(2))
    /\ storedBodyLength > 0
    /\ Len(built) > storedBodyLength
    /\ Len(mainBody) = storedBodyLength

\* C19: at end of input with a pending continuation the buffer is
\* emptied, Run is not called, the session is as it was and main prompts
\* again; at end of input with an empty buffer main leaves the loop.
C19_EndOfInput ==
    [][(pc = "Prompt" /\ readErr' = EOF) =>
          IF buffer # <<>>
          THEN /\ buffer' = <<>>
               /\ pc' = "Prompt"
               /\ Program' = Program
               /\ checks' = checks /\ goRuns' = goRuns
          ELSE pc' = "exit"]_vars

C19_Witness ==
    /\ pc = "Prompt"
    /\ readErr = EOF
    /\ buffer = <<>>
    /\ mainBody # <<>>
====
